---- MODULE Spec2Model ----
(***************************************************************************)
(* Model of keyword-bot (src/bot.py): the keyword matcher, the keyword     *)
(* store, the slash commands and the on_message matching / notification    *)
(* pass.                                                                   *)
(*                                                                         *)
(* Texts and keywords are sequences of one-character strings.  A store row *)
(* is a record [user_id, keyword, channel_id, guild_id]; the store is the  *)
(* sequence of rows in rowid order.                                        *)
(***************************************************************************)
EXTENDS Integers, Sequences, FiniteSets, TLC

(***************************************************************************)
(* Bounds of the model.                                                    *)
(***************************************************************************)
MaxRows == 3

(***************************************************************************)
(* Characters.                                                             *)
(***************************************************************************)
UpperCase == <<"A","B","C","D","E","F","G","H","I","J","K","L","M",
               "N","O","P","Q","R","S","T","U","V","W","X","Y","Z">>

LowerCase == <<"a","b","c","d","e","f","g","h","i","j","k","l","m",
               "n","o","p","q","r","s","t","u","v","w","x","y","z">>

Digits == {"0","1","2","3","4","5","6","7","8","9"}

\* The particles of KOREAN_PARTICLES, each a sequence of Hangul syllables.
\* A Hangul syllable is written "ko:" followed by its romanisation, so that
\* it is one character of a text, distinct from every Latin letter.
KOREAN_PARTICLES ==
    << <<"ko:kke","ko:seo">>, <<"ko:e","ko:seo","ko:bu","ko:teo">>, <<"ko:eu","ko:ro","ko:bu","ko:teo">>,
       <<"ko:ro","ko:bu","ko:teo">>, <<"ko:e","ko:ge","ko:seo">>, <<"ko:han","ko:te","ko:seo">>,
       <<"ko:eu","ko:ro","ko:sseo">>, <<"ko:ro","ko:sseo">>, <<"ko:eu","ko:ro","ko:seo">>, <<"ko:ro","ko:seo">>,
       <<"ko:i","ko:ra","ko:go","ko:neun">>, <<"ko:ra","ko:go","ko:neun">>, <<"ko:i","ko:ra","ko:go">>,
       <<"ko:ra","ko:go">>, <<"ko:i","ko:na","ko:ma">>, <<"ko:na","ko:ma">>, <<"ko:i","ko:ra","ko:do">>,
       <<"ko:ra","ko:do">>, <<"ko:i","ko:deun","ko:ji">>, <<"ko:deun","ko:ji">>, <<"ko:i","ko:deun">>,
       <<"ko:deun">>, <<"ko:i","ko:rang">>, <<"ko:rang">>, <<"ko:i","ko:na">>, <<"ko:na">>,
       <<"ko:i","ko:myeo">>, <<"ko:ha","ko:myeo">>, <<"ko:ha","ko:go">>, <<"ko:i","ko:ja">>, <<"ko:ja">>,
       <<"ko:e","ko:ge">>, <<"ko:han","ko:te">>, <<"ko:e","ko:seo">>, <<"ko:eu","ko:ro">>, <<"ko:ro">>,
       <<"ko:kka","ko:ji">>, <<"ko:bu","ko:teo">>, <<"ko:bakk","ko:e">>, <<"ko:ppun">>, <<"ko:jo","ko:cha">>,
       <<"ko:ma","ko:jeo">>, <<"ko:ma","ko:da">>, <<"ko:man","ko:keum">>, <<"ko:jjeum">>, <<"ko:ssik">>,
       <<"ko:man","ko:chi">>, <<"ko:gat_","ko:i">>, <<"ko:cheo","ko:reom">>, <<"ko:dae","ko:ro">>,
       <<"ko:bo","ko:da">>, <<"ko:keo","ko:nyeong">>, <<"ko:do">>, <<"ko:man">>, <<"ko:ui">>, <<"ko:gwa">>,
       <<"ko:wa">>, <<"ko:eul">>, <<"ko:reul">>, <<"ko:eun">>, <<"ko:neun">>, <<"ko:i">>, <<"ko:ga">>,
       <<"ko:e">>, <<"ko:kke">> >>

\* The alternatives of _KOREAN_PARTICLE_PATTERN (the regex backtracks over
\* all of them, so their order does not change whether a text matches).
KoreanParticlePattern == { KOREAN_PARTICLES[i] : i \in 1..Len(KOREAN_PARTICLES) }

\* Hangul syllables (the class [U+AC00-U+D7A3] of the source) that occur in the model's texts.
HangulSyllables ==
    UNION { { p[j] : j \in 1..Len(p) } : p \in KoreanParticlePattern }
      \cup {"ko:sa","ko:ju","ko:seu","ko:se","ko:il","ko:yo","ko:mas","ko:iss"}

\* re.IGNORECASE: characters are compared after case folding.
CaseFold ==
    [c \in {UpperCase[i] : i \in 1..Len(UpperCase)} |->
        LowerCase[CHOOSE i \in 1..Len(UpperCase) : UpperCase[i] = c]]

Lower(c) == IF c \in DOMAIN CaseFold THEN CaseFold[c] ELSE c

\* \w of the regex engine: letters, digits, underscore and Hangul.
WordChars ==
    {UpperCase[i] : i \in 1..Len(UpperCase)}
      \cup {LowerCase[i] : i \in 1..Len(LowerCase)}
      \cup Digits \cup {"_"} \cup HangulSyllables

IsWordChar(c) == c \in WordChars

\* Is there a word character at position p of text (FALSE outside the text)?
WordAt(text, p) == p >= 1 /\ p <= Len(text) /\ IsWordChar(text[p])

\* \b at the gap before position p.
WordBoundary(text, p) == WordAt(text, p - 1) # WordAt(text, p)

\* The literal lit (re.escape makes every keyword character literal) occurs
\* at position p of text, compared case-insensitively.
LiteralAt(lit, text, p) ==
    /\ p >= 1
    /\ p + Len(lit) - 1 <= Len(text)
    /\ \A j \in 1..Len(lit) : Lower(text[p + j - 1]) = Lower(lit[j])

(***************************************************************************)
(* _compile_keyword_pattern and pattern.search                             *)
(***************************************************************************)
MaxParticles == 3

ContainsHangul(keyword) == \E j \in 1..Len(keyword) : keyword[j] \in HangulSyllables

\* Variant: every keyword gets the plain \b...\b pattern.
CompileKeywordPatternPlain(keyword) ==
    [mode |-> "word", escaped |-> keyword]

CompileKeywordPattern(keyword) ==
    IF ContainsHangul(keyword)
    THEN [mode |-> "particles", escaped |-> keyword]
    ELSE [mode |-> "word", escaped |-> keyword]

\* (?:P1|P2|...){0,n}(?!\w) matches at position p of text.
RECURSIVE ParticleRun(_, _, _)
ParticleRun(text, p, n) ==
    \/ ~WordAt(text, p)
    \/ /\ n > 0
       /\ \E q \in KoreanParticlePattern :
             LiteralAt(q, text, p) /\ ParticleRun(text, p + Len(q), n - 1)

\* Variant: the particle group is repeated without an upper bound.
PatternMatchesAtUnbounded(pattern, text, p) ==
    IF pattern.mode = "particles"
    THEN /\ ~WordAt(text, p - 1)
         /\ LiteralAt(pattern.escaped, text, p)
         /\ ParticleRun(text, p + Len(pattern.escaped), Len(text))
    ELSE /\ WordBoundary(text, p)
         /\ LiteralAt(pattern.escaped, text, p)
         /\ WordBoundary(text, p + Len(pattern.escaped))

PatternMatchesAt(pattern, text, p) ==
    IF pattern.mode = "particles"
    THEN /\ ~WordAt(text, p - 1)
         /\ LiteralAt(pattern.escaped, text, p)
         /\ ParticleRun(text, p + Len(pattern.escaped), MaxParticles)
    ELSE /\ WordBoundary(text, p)
         /\ LiteralAt(pattern.escaped, text, p)
         /\ WordBoundary(text, p + Len(pattern.escaped))

PatternSearch(pattern, text) ==
    \E p \in 1..(Len(text) + 1) : PatternMatchesAt(pattern, text, p)

(***************************************************************************)
(* The keyword store (table keywords, index idx_keywords_unique)           *)
(***************************************************************************)
None == "None"

GLOBAL == "GLOBAL"

\* str(channel.id): the decimal text of a channel id.
Str(channel_id) == CASE channel_id = 1 -> "1" [] channel_id = 2 -> "2"

\* Variant: the keyword column has no NOCASE collation.
NoCaseEqualExact(k1, k2) == k1 = k2

\* COLLATE NOCASE: two keyword texts are equal when they agree after folding
\* the ASCII letters.
NoCaseEqual(k1, k2) ==
    /\ Len(k1) = Len(k2)
    /\ \A j \in 1..Len(k1) : Lower(k1[j]) = Lower(k2[j])

\* idx_keywords_unique: no two rows agree on (user_id, keyword, channel_id,
\* guild_id).
SameIndexKey(r1, r2) ==
    /\ r1.user_id = r2.user_id
    /\ NoCaseEqual(r1.keyword, r2.keyword)
    /\ r1.channel_id = r2.channel_id
    /\ r1.guild_id = r2.guild_id

UniqueIndex(table) ==
    \A i, j \in 1..Len(table) : SameIndexKey(table[i], table[j]) => i = j

RECURSIVE SelectRows(_, _)
SelectRows(table, guild_id) ==
    IF table = <<>> THEN <<>>
    ELSE LET r == Head(table)
             rest == SelectRows(Tail(table), guild_id)
         IN IF r.guild_id = guild_id
            THEN <<[user_id |-> r.user_id, keyword |-> r.keyword,
                    channel_id |-> r.channel_id]>> \o rest
            ELSE rest

fetch_keywords_for_guild(table, guild_id) == SelectRows(table, guild_id)

(***************************************************************************)
(* The universe of the dispatch model: one server, two channels, two       *)
(* subscribers, a third user and the bot's own account.                    *)
(***************************************************************************)
KwSale == <<"s","a","l","e">>

KwSaleCap == <<"S","a","l","e">>

TextSale == <<"b","i","g"," ","s","a","l","e"," ","t","o","d","a","y">>

TextCat == <<"a"," ","c","a","t",".">>

Subscribers == {"U1", "U2"}

BotUserId == "BOT"

Guilds == {"S1"}

ChannelIds == {1, 2}

RowKinds ==
    [user_id : Subscribers, keyword : {KwSale, KwSaleCap},
     channel_id : {Str(1), GLOBAL}, guild_id : Guilds]

\* The tables of at most MaxRows rows that the unique index admits.
Stores ==
    UNION { { t \in [1..n -> RowKinds] : UniqueIndex(t) } : n \in 0..MaxRows }

Authors ==
    { [id |-> "U1", bot |-> FALSE], [id |-> "U3", bot |-> FALSE],
      [id |-> "U3", bot |-> TRUE], [id |-> BotUserId, bot |-> TRUE] }

Messages ==
    [guild : Guilds \cup {None}, channel : ChannelIds, author : Authors,
     content : {TextSale, TextCat, <<>>}]

(***************************************************************************)
(* State: the store and one on_message pass.                               *)
(*   pc            position of the pass: "idle", then "member", "perm",    *)
(*                 "user", "send" inside the owner loop, and finally       *)
(*                 "done" (returned) or "raised" (an exception left        *)
(*                 on_message)                                             *)
(*   log           the calls made to the collaborators, in order           *)
(*   unsubAtStart  the value of unsub when the pass read the store         *)
(*   bg            the locals of a second pass, suspended at an await      *)
(* State of the slash commands:                                            *)
(*   response      the reply of the last command handler                   *)
(*   prev, last    the store before the last command, and its arguments    *)
(*   awaiting      number of handlers suspended in their final             *)
(*                 interaction.response.send_message                       *)
(*   ncmds         number of commands handled                              *)
(*   unsub         the (user, guild, keyword) removed and not added again  *)
(* State of a single matcher call: kw, text, found.                        *)
(***************************************************************************)
VARIABLES store, pc, message, rows, patterns, matched, idx,
          member_cache, user_cache, member, user, pending, log,
          unsubAtStart, bg,
          response, prev, last, awaiting, ncmds, unsub,
          kw, text, found

vars == <<store, pc, message, rows, patterns, matched, idx,
          member_cache, user_cache, member, user, pending, log,
          unsubAtStart, bg,
          response, prev, last, awaiting, ncmds, unsub,
          kw, text, found>>

\* The variables no step of a pass changes.
outside == <<bg, response, prev, last, awaiting, ncmds, unsub, kw, text, found>>

\* The variables of the pass in the foreground.
passVars == <<pc, message, rows, patterns, matched, idx, member_cache,
              user_cache, member, user, pending, log, unsubAtStart>>

cmdVars == <<response, prev, last, awaiting, ncmds, unsub>>

matchVars == <<kw, text, found>>

Raise == "raise"

Event(op, user_id, keyword, result) ==
    [op |-> op, user_id |-> user_id, keyword |-> keyword, result |-> result]

(***************************************************************************)
(* on_message, lines 513-568: the guards and the match loop.               *)
(***************************************************************************)
\* Variant: the bot's own messages are not told apart.
IsIgnoredNotOwn(msg) ==
    \/ msg.guild = None
    \/ msg.content = <<>>

IsIgnored(msg) ==
    \/ msg.guild = None
    \/ msg.content = <<>>
    \/ (msg.author.bot /\ BotUserId # None /\ msg.author.id = BotUserId)

\* Variant: the author is not skipped.
IsSelfMatchNever(msg, row) == FALSE

IsSelfMatch(msg, row) == msg.author.id = row.user_id

\* Variant: the GLOBAL sentinel is compared like a channel id.
OutOfScopeGlobalToo(msg, row) == Str(msg.channel) # row.channel_id

\* Variant: the scope of a row is not looked at.
OutOfScopeNever(msg, row) == FALSE

OutOfScope(msg, row) ==
    row.channel_id # GLOBAL /\ Str(msg.channel) # row.channel_id

\* Variant: matches are collected in a list of (owner, keyword) pairs.
AddMatchList(m, user_id, keyword) ==
    Append(m, [user_id |-> user_id, keywords |-> {keyword}])

\* matched.setdefault(user_id, set()).add(keyword); matched is kept in
\* insertion order, as the dict keeps it.
AddMatch(m, user_id, keyword) ==
    IF \E i \in 1..Len(m) : m[i].user_id = user_id
    THEN [i \in 1..Len(m) |->
            IF m[i].user_id = user_id
            THEN [m[i] EXCEPT !.keywords = @ \cup {keyword}]
            ELSE m[i]]
    ELSE Append(m, [user_id |-> user_id, keywords |-> {keyword}])

\* patterns.get(keyword), compiling and caching on a miss.
WithPattern(pats, keyword) ==
    IF keyword \in DOMAIN pats
    THEN pats
    ELSE (keyword :> CompileKeywordPattern(keyword)) @@ pats

\* The for-loop over rows, from row i on; acc is [patterns, matched].
RECURSIVE MatchLoop(_, _, _, _)
MatchLoop(msg, rs, i, acc) ==
    IF i > Len(rs) THEN acc
    ELSE LET row == rs[i] IN
         IF IsSelfMatch(msg, row) THEN MatchLoop(msg, rs, i + 1, acc)
         ELSE IF OutOfScope(msg, row) THEN MatchLoop(msg, rs, i + 1, acc)
         ELSE LET pats == WithPattern(acc.patterns, row.keyword) IN
              IF ~PatternSearch(pats[row.keyword], msg.content)
              THEN MatchLoop(msg, rs, i + 1, [acc EXCEPT !.patterns = pats])
              ELSE MatchLoop(msg, rs, i + 1,
                             [patterns |-> pats,
                              matched |-> AddMatch(acc.matched, row.user_id,
                                                   row.keyword)])

OnMessage(msg) ==
    /\ pc = "idle"
    /\ message' = msg
    /\ unsubAtStart' = unsub
    /\ UNCHANGED <<store, member_cache, user_cache, member, user, pending>>
    /\ UNCHANGED outside
    /\ IF IsIgnored(msg)
       THEN /\ pc' = "done"
            /\ UNCHANGED <<rows, patterns, matched, idx, log>>
       ELSE LET fetched == fetch_keywords_for_guild(store, msg.guild)
                res == MatchLoop(msg, fetched, 1,
                                 [patterns |-> <<>>, matched |-> <<>>])
            IN /\ rows' = fetched
               /\ log' = Append(log, Event("fetch_keywords_for_guild",
                                           None, <<>>, None))
               /\ IF fetched = <<>>
                  THEN /\ pc' = "done"
                       /\ UNCHANGED <<patterns, matched, idx>>
                  ELSE /\ patterns' = res.patterns
                       /\ matched' = res.matched
                       /\ idx' = 1
                       /\ pc' = IF res.matched = <<>> THEN "done" ELSE "member"

(***************************************************************************)
(* on_message, lines 570-625: the loop over matched owners.                *)
(***************************************************************************)
LookupOutcomes == {"cached", "fetched", "NotFound", "Forbidden", "HTTPException"}

SendOutcomes == {"ok", "Forbidden", "HTTPException"}

\* _get_member: guild.get_member, then guild.fetch_member; NotFound and
\* Forbidden give None, any other error propagates.
get_member(user_id, outcome) ==
    CASE outcome \in {"cached", "fetched"} -> user_id
      [] outcome \in {"NotFound", "Forbidden"} -> None
      [] OTHER -> Raise

\* bot.get_user, then bot.fetch_user, lines 592-599.
get_user(user_id, outcome) ==
    CASE outcome \in {"cached", "fetched"} -> user_id
      [] outcome \in {"NotFound", "Forbidden"} -> None
      [] OTHER -> Raise

CacheGet(cache, key) == IF key \in DOMAIN cache THEN cache[key] ELSE None

\* Variant: an absent member or user is not skipped.
SkipOwnerNever(resolved) == FALSE

\* "if member is None: continue" and "if user is None: continue".
SkipOwner(resolved) == resolved = None

\* continue / end of the owner's iteration: the next owner, or the end.
NextOwner ==
    /\ idx' = idx + 1
    /\ pc' = IF idx < Len(matched) THEN "member" ELSE "done"
    /\ pending' = {}

\* Lines 574-580.
ResolveMember ==
    /\ pc = "member"
    /\ \E outcome \in LookupOutcomes :
         LET user_id == matched[idx].user_id
             cached == CacheGet(member_cache, user_id)
             res == IF cached # None THEN cached
                    ELSE get_member(user_id, outcome)
         IN /\ log' = IF cached # None THEN log
                      ELSE Append(log, Event("get_member", user_id, <<>>, res))
            /\ IF res = Raise
               THEN /\ pc' = "raised"
                    /\ UNCHANGED <<member_cache, member, idx, pending>>
               ELSE /\ member_cache' = (user_id :> res) @@ member_cache
                    /\ member' = res
                    /\ IF SkipOwner(res)
                       THEN NextOwner
                       ELSE pc' = "perm" /\ UNCHANGED <<idx, pending>>
    /\ UNCHANGED <<store, message, rows, patterns, matched, user_cache, user>>
    /\ UNCHANGED <<outside, unsubAtStart>>

\* Variant: the permission is not looked at.
ViewChannelAlways(view) == TRUE

\* message.channel.permissions_for(member).view_channel, lines 582-588.
ViewChannel(view) == view

CheckPermission ==
    /\ pc = "perm"
    /\ \E view \in BOOLEAN :
         /\ log' = Append(log, Event("permissions_for", member, <<>>,
                                     IF view THEN "True" ELSE "False"))
         /\ IF ViewChannel(view)
            THEN pc' = "user" /\ UNCHANGED <<idx, pending>>
            ELSE NextOwner
    /\ UNCHANGED <<store, message, rows, patterns, matched, member_cache,
                   user_cache, member, user>>
    /\ UNCHANGED <<outside, unsubAtStart>>

\* Lines 590-604.
ResolveUser ==
    /\ pc = "user"
    /\ \E outcome \in LookupOutcomes :
         LET user_id == matched[idx].user_id
             cached == CacheGet(user_cache, user_id)
             res == IF cached # None THEN cached
                    ELSE get_user(user_id, outcome)
         IN /\ log' = IF cached # None THEN log
                      ELSE Append(log, Event("get_user", user_id, <<>>, res))
            /\ IF res = Raise
               THEN /\ pc' = "raised"
                    /\ UNCHANGED <<user_cache, user, idx, pending>>
               ELSE /\ user_cache' = (user_id :> res) @@ user_cache
                    /\ user' = res
                    /\ IF SkipOwner(res)
                       THEN NextOwner
                       ELSE /\ pc' = "send"
                            /\ pending' = matched[idx].keywords
                            /\ UNCHANGED idx
    /\ UNCHANGED <<store, message, rows, patterns, matched, member_cache,
                   member>>
    /\ UNCHANGED <<outside, unsubAtStart>>

\* Variant: a refused delivery does not leave the keyword loop.
AfterSendNoBreak(outcome) ==
    CASE outcome \in {"ok", "Forbidden"} -> "next"
      [] OTHER -> Raise

\* What the keyword loop does after user.send: "next" keyword, "break" on
\* discord.Forbidden, and any other error propagates.
AfterSend(outcome) ==
    CASE outcome = "ok" -> "next"
      [] outcome = "Forbidden" -> "break"
      [] OTHER -> Raise

\* The keywords still to iterate once keyword has been handled.
Remaining(keywords, keyword) == keywords \ {keyword}

\* One iteration of the keyword loop, lines 606-625.
Send ==
    /\ pc = "send"
    /\ \E keyword \in pending, outcome \in SendOutcomes :
         /\ log' = Append(log, Event("send", user, keyword, outcome))
         /\ CASE AfterSend(outcome) = "next" ->
                   IF Remaining(pending, keyword) = {}
                   THEN NextOwner
                   ELSE /\ pending' = Remaining(pending, keyword)
                        /\ UNCHANGED <<pc, idx>>
              [] AfterSend(outcome) = "break" -> NextOwner
              [] OTHER -> pc' = "raised" /\ UNCHANGED <<idx, pending>>
    /\ UNCHANGED <<store, message, rows, patterns, matched, member_cache,
                   user_cache, member, user>>
    /\ UNCHANGED <<outside, unsubAtStart>>

\* No pass has started.
PassInit ==
    /\ pc = "idle"
    /\ message = None
    /\ rows = <<>>
    /\ patterns = <<>>
    /\ matched = <<>>
    /\ idx = 0
    /\ member_cache = <<>>
    /\ user_cache = <<>>
    /\ member = None
    /\ user = None
    /\ pending = {}
    /\ log = <<>>
    /\ unsubAtStart = {}

\* No command has been handled.
CmdInit ==
    /\ response = None
    /\ prev = <<>>
    /\ last = [cmd |-> None, user_id |-> None, guild_id |-> None,
               keyword |-> <<>>, channel_id |-> None, removed |-> 0]
    /\ awaiting = 0
    /\ ncmds = 0
    /\ unsub = {}

\* No matcher call has been made.
MatchInit ==
    /\ kw = <<>>
    /\ text = <<>>
    /\ found = None

Init ==
    /\ store \in Stores
    /\ PassInit
    /\ bg = None
    /\ CmdInit
    /\ MatchInit

Next ==
    \/ \E msg \in Messages : OnMessage(msg)
    \/ ResolveMember
    \/ CheckPermission
    \/ ResolveUser
    \/ Send

Spec == Init /\ [][Next]_vars

(***************************************************************************)
(* Reading the log.                                                        *)
(***************************************************************************)
Calls(op, user_id) ==
    { i \in 1..Len(log) : log[i].op = op /\ log[i].user_id = user_id }

Sends(user_id, keyword) ==
    { i \in Calls("send", user_id) : log[i].keyword = keyword }

Owners == { matched[p].user_id : p \in 1..Len(matched) }

PosOf(user_id) == CHOOSE p \in 1..Len(matched) : matched[p].user_id = user_id

\* The pass has left owner number p behind without raising.
GoneOn(p) ==
    /\ idx = p + 1
    /\ pc = IF p < Len(matched) THEN "member" ELSE "done"

\* Row i of the snapshot applies to the message and its keyword occurs in it.
RowMatches(i) ==
    /\ rows[i].user_id # message.author.id
    /\ (rows[i].channel_id = GLOBAL \/ rows[i].channel_id = Str(message.channel))
    /\ PatternSearch(CompileKeywordPattern(rows[i].keyword), message.content)

(***************************************************************************)
(* C1  Permission gating: an owner whose view-permission check returned    *)
(* false gets no identity resolution and no delivery attempt in the pass,  *)
(* and the pass goes on with the next owner.                               *)
(***************************************************************************)
PermissionGating ==
    \A i \in 1..Len(log) :
        (log[i].op = "permissions_for" /\ log[i].result = "False") =>
            /\ Calls("get_user", log[i].user_id) = {}
            /\ Calls("send", log[i].user_id) = {}
            /\ i = Len(log) => GoneOn(PosOf(log[i].user_id))

\* An owner was denied and a later owner still got a delivery attempt.
PermissionGatingWitness ==
    \E i, j \in 1..Len(log) :
        /\ i < j
        /\ log[i].op = "permissions_for" /\ log[i].result = "False"
        /\ log[j].op = "send" /\ log[j].user_id # log[i].user_id

(***************************************************************************)
(* C2  Self-match suppression: the author of the message is never in the   *)
(* Match Result and never gets a call or a delivery attempt, and a keyword *)
(* held only by the author is never compiled.                              *)
(***************************************************************************)
SelfMatchSuppression ==
    pc # "idle" =>
        /\ message.author.id \notin Owners
        /\ \A i \in 1..Len(log) : log[i].user_id # message.author.id
        /\ \A k \in DOMAIN patterns :
              \E i \in 1..Len(rows) :
                  rows[i].keyword = k /\ rows[i].user_id # message.author.id

\* The author holds a subscription that applies to the message and whose
\* keyword occurs in it, and another owner was matched.
SelfMatchSuppressionWitness ==
    /\ pc = "done"
    /\ matched # <<>>
    /\ \E i \in 1..Len(rows) :
          /\ rows[i].user_id = message.author.id
          /\ rows[i].channel_id \in {GLOBAL, Str(message.channel)}
          /\ PatternSearch(CompileKeywordPattern(rows[i].keyword), message.content)

(***************************************************************************)
(* C3  Scope filtering: the Match Result holds keyword k under owner u     *)
(* exactly when some row (u, k, scope) of another user than the author has *)
(* scope GLOBAL or the message's channel and k occurs in the text; with    *)
(* rows (U1,"sale",channel 1), (U2,"sale",GLOBAL) the message "big sale    *)
(* today" of U3 gives U1 and U2 in channel 1 and only U2 in channel 2.     *)
(***************************************************************************)
ExampleRows ==
    << [user_id |-> "U1", keyword |-> KwSale, channel_id |-> "1"],
       [user_id |-> "U2", keyword |-> KwSale, channel_id |-> GLOBAL] >>

ScopeFiltering ==
    (pc # "idle" /\ ~IsIgnored(message)) =>
        /\ \A p \in 1..Len(matched) : \A k \in matched[p].keywords :
              \E i \in 1..Len(rows) :
                  /\ rows[i].user_id = matched[p].user_id
                  /\ rows[i].keyword = k
                  /\ RowMatches(i)
        /\ \A i \in 1..Len(rows) :
              RowMatches(i) =>
                  \E p \in 1..Len(matched) :
                      /\ matched[p].user_id = rows[i].user_id
                      /\ rows[i].keyword \in matched[p].keywords
        /\ (rows = ExampleRows /\ message.author.id = "U3"
              /\ message.content = TextSale) =>
                 matched = IF message.channel = 1
                           THEN << [user_id |-> "U1", keywords |-> {KwSale}],
                                   [user_id |-> "U2", keywords |-> {KwSale}] >>
                           ELSE << [user_id |-> "U2", keywords |-> {KwSale}] >>

\* The example's message in channel 2: only the global subscription matched.
ScopeFilteringWitness ==
    /\ pc = "member"
    /\ rows = ExampleRows
    /\ message.author.id = "U3"
    /\ message.channel = 2
    /\ Owners = {"U2"}

(***************************************************************************)
(* C4  One delivery per pair: no (owner, keyword) pair gets more than one  *)
(* delivery attempt, and when the pass has ended, every owner who resolved *)
(* as a member, could view the channel, resolved to a user and had no      *)
(* delivery refused (Forbidden) has had exactly one delivery attempt for   *)
(* each keyword of the owner's Match Result entry.                         *)
(***************************************************************************)
Qualified(p) ==
    LET u == matched[p].user_id IN
    /\ \E i \in Calls("get_member", u) : log[i].result = u
    /\ \E i \in Calls("permissions_for", u) : log[i].result = "True"
    /\ \E i \in Calls("get_user", u) : log[i].result = u
    /\ \A i \in Calls("send", u) : log[i].result # "Forbidden"

OneDeliveryPerPair ==
    /\ \A i, j \in 1..Len(log) :
          (log[i].op = "send" /\ log[j].op = "send"
             /\ log[i].user_id = log[j].user_id
             /\ log[i].keyword = log[j].keyword) => i = j
    /\ pc \in {"done", "raised"} =>
          \A p \in 1..Len(matched) :
              Qualified(p) =>
                  \A k \in matched[p].keywords :
                      Cardinality(Sends(matched[p].user_id, k)) = 1

(***************************************************************************)
(* C5  Delivery refused is terminal for that owner only: after a refused   *)
(* (Forbidden) delivery attempt to an owner no further attempt is made to  *)
(* that owner in the pass, the pass goes on with the next owner, and a     *)
(* pass that returns has processed every owner of the Match Result.        *)
(***************************************************************************)
RefusedIsTerminalForOwnerOnly ==
    /\ \A i \in 1..Len(log) :
          (log[i].op = "send" /\ log[i].result = "Forbidden") =>
              /\ \A j \in Calls("send", log[i].user_id) : j <= i
              /\ i = Len(log) => GoneOn(PosOf(log[i].user_id))
    /\ pc = "done" => \A u \in Owners : Calls("get_member", u) # {}

\* A delivery to an owner with two matched keywords was refused, the other
\* keyword was abandoned, and a later owner got a delivery attempt.
RefusedIsTerminalForOwnerOnlyWitness ==
    \E i, j \in 1..Len(log) :
        /\ i < j
        /\ log[i].op = "send" /\ log[i].result = "Forbidden"
        /\ Cardinality(matched[PosOf(log[i].user_id)].keywords) = 2
        /\ log[j].op = "send" /\ log[j].user_id # log[i].user_id
        /\ pc = "done"

(***************************************************************************)
(* C6  Failure isolation across owners: whatever way an external call      *)
(* fails, on_message does not raise and every owner of the Match Result is *)
(* processed.                                                              *)
(***************************************************************************)
FailureIsolation ==
    /\ pc # "raised"
    /\ pc = "done" => \A u \in Owners : Calls("get_member", u) # {}

(***************************************************************************)
(* C7  Resolution precedes delivery: every delivery attempt to an owner    *)
(* comes after a successful member resolution, then a positive permission  *)
(* check, then a successful identity resolution for that owner; an absent  *)
(* member means no permission check, identity resolution or delivery for   *)
(* the owner, an absent identity means no delivery, and in both cases the  *)
(* pass goes on without raising.                                           *)
(***************************************************************************)
ResolutionPrecedesDelivery ==
    /\ \A j \in 1..Len(log) :
          log[j].op = "send" =>
              \E a, b, c \in 1..j :
                  /\ a < b /\ b < c /\ c < j
                  /\ log[a] = Event("get_member", log[j].user_id, <<>>,
                                    log[j].user_id)
                  /\ log[b] = Event("permissions_for", log[j].user_id, <<>>,
                                    "True")
                  /\ log[c] = Event("get_user", log[j].user_id, <<>>,
                                    log[j].user_id)
    /\ \A i \in 1..Len(log) :
          (log[i].op = "get_member" /\ log[i].result = None) =>
              /\ Calls("permissions_for", log[i].user_id) = {}
              /\ Calls("get_user", log[i].user_id) = {}
              /\ Calls("send", log[i].user_id) = {}
              /\ i = Len(log) => GoneOn(PosOf(log[i].user_id))
    /\ \A i \in 1..Len(log) :
          (log[i].op = "get_user" /\ log[i].result = None) =>
              /\ Calls("send", log[i].user_id) = {}
              /\ i = Len(log) => GoneOn(PosOf(log[i].user_id))

\* One owner was absent as a member and the next owner got a delivery.
ResolutionPrecedesDeliveryWitness ==
    \E i, j \in 1..Len(log) :
        /\ i < j
        /\ log[i].op = "get_member" /\ log[i].result = None
        /\ log[j].op = "send" /\ log[j].result = "ok"

(***************************************************************************)
(* C8  Empty fast paths: with an empty subscription list nothing is        *)
(* compiled, and when no subscription matches the message the pass returns *)
(* without any member resolution, identity resolution or delivery attempt. *)
(***************************************************************************)
EmptyFastPaths ==
    pc # "idle" =>
        /\ rows = <<>> => (patterns = <<>> /\ pc = "done")
        /\ (\A i \in 1..Len(rows) : ~RowMatches(i)) =>
              /\ pc = "done"
              /\ \A i \in 1..Len(log) : log[i].op = "fetch_keywords_for_guild"

\* Subscriptions were evaluated against the message and none matched.
EmptyFastPathsWitness ==
    /\ pc = "done"
    /\ patterns # <<>>
    /\ matched = <<>>
    /\ Len(log) = 1

(***************************************************************************)
(* C9  Per-pass memoization: each owner has at most one member resolution  *)
(* and at most one identity resolution in the pass.                        *)
(***************************************************************************)
PerPassMemoization ==
    \A i, j \in 1..Len(log) :
        (log[i].op \in {"get_member", "get_user"}
           /\ log[i].op = log[j].op
           /\ log[i].user_id = log[j].user_id) => i = j

\* The pass has left behind an owner with two matched keywords whose member
\* resolution was negative.
PerPassMemoizationWitness ==
    \E p \in 1..Len(matched) :
        /\ idx > p
        /\ Cardinality(matched[p].keywords) = 2
        /\ \E i \in Calls("get_member", matched[p].user_id) :
              log[i].result = None

(***************************************************************************)
(* C10  Duplicates across scopes are not distinguished: an owner's Match   *)
(* Result entry never holds two keywords that are the same text under the  *)
(* case-insensitive comparison, and the owner never gets two delivery      *)
(* attempts for such keywords.                                             *)
(***************************************************************************)
DuplicatesNotDistinguished ==
    /\ \A p \in 1..Len(matched) : \A k1, k2 \in matched[p].keywords :
          NoCaseEqual(k1, k2) => k1 = k2
    /\ \A i, j \in 1..Len(log) :
          (log[i].op = "send" /\ log[j].op = "send"
             /\ log[i].user_id = log[j].user_id
             /\ NoCaseEqual(log[i].keyword, log[j].keyword)) => i = j

(***************************************************************************)
(* The store functions, lines 169-228.  Each returns the new table beside  *)
(* its result.                                                             *)
(***************************************************************************)
keyword_exists(table, user_id, keyword, channel_id, guild_id) ==
    \E i \in 1..Len(table) :
        /\ table[i].user_id = user_id
        /\ NoCaseEqual(table[i].keyword, keyword)
        /\ table[i].channel_id = channel_id
        /\ table[i].guild_id = guild_id

count_keywords(table, user_id, guild_id) ==
    Cardinality({ i \in 1..Len(table) :
                    table[i].user_id = user_id /\ table[i].guild_id = guild_id })

\* INSERT OR IGNORE: the unique index drops a row whose key is present.
add_keyword(table, user_id, keyword, channel_id, guild_id) ==
    LET row == [user_id |-> user_id, keyword |-> keyword,
                channel_id |-> channel_id, guild_id |-> guild_id]
    IN IF \E i \in 1..Len(table) : SameIndexKey(table[i], row)
       THEN [table |-> table, added |-> FALSE]
       ELSE [table |-> Append(table, row), added |-> TRUE]

\* Variant: the DELETE takes the server-wide record only.
remove_keyword_global_only(table, user_id, guild_id, keyword) ==
    LET Keep(r) == ~(/\ r.user_id = user_id
                     /\ r.guild_id = guild_id
                     /\ r.channel_id = GLOBAL
                     /\ NoCaseEqual(r.keyword, keyword))
    IN [table |-> SelectSeq(table, Keep),
        removed |-> Len(table) - Len(SelectSeq(table, Keep))]

\* Variant: the DELETE has no guild_id condition.
remove_keyword_any_guild(table, user_id, guild_id, keyword) ==
    LET Keep(r) == ~(r.user_id = user_id /\ NoCaseEqual(r.keyword, keyword))
    IN [table |-> SelectSeq(table, Keep),
        removed |-> Len(table) - Len(SelectSeq(table, Keep))]

\* DELETE ... WHERE user_id = ? AND guild_id = ? AND keyword = ?, the keyword
\* compared under the column's NOCASE collation; returns cur.rowcount.
remove_keyword(table, user_id, guild_id, keyword) ==
    LET Keep(r) == ~(/\ r.user_id = user_id
                     /\ r.guild_id = guild_id
                     /\ NoCaseEqual(r.keyword, keyword))
    IN [table |-> SelectSeq(table, Keep),
        removed |-> Len(table) - Len(SelectSeq(table, Keep))]

(***************************************************************************)
(* The slash commands, lines 284-497.                                      *)
(***************************************************************************)
KeywordLimit == 10

\* keyword.strip()
RECURSIVE StripLeft(_)
StripLeft(k) == IF k # <<>> /\ Head(k) = " " THEN StripLeft(Tail(k)) ELSE k

RECURSIVE StripRight(_)
StripRight(k) ==
    IF k # <<>> /\ k[Len(k)] = " "
    THEN StripRight(SubSeq(k, 1, Len(k) - 1))
    ELSE k

Strip(k) == StripRight(StripLeft(k))

\* The channels of each guild: two text channels and a voice channel in S1,
\* none in S2.
GuildChannels(guild) ==
    IF guild = "S1"
    THEN { [id |-> 1, type |-> "text", guild |-> "S1"],
           [id |-> 2, type |-> "text", guild |-> "S1"],
           [id |-> 3, type |-> "voice", guild |-> "S1"] }
    ELSE {}

\* int(channel_id); -1 stands for TypeError / ValueError.
ParseInt(arg) ==
    CASE arg = "1" -> 1 [] arg = "01" -> 1 [] arg = "2" -> 2 [] arg = "3" -> 3
      [] OTHER -> -1

\* interaction.guild.get_channel(int(channel_id)): the channel, if any.
get_channel(guild, arg) == { c \in GuildChannels(guild) : c.id = ParseInt(arg) }

\* Variant: the limit test is count > 10.
LimitReachedAbove(count) == count > KeywordLimit

\* count_keywords(...) >= 10, lines 328 and 392.
LimitReached(count) == count >= KeywordLimit

\* Variant: the limit is tested before the duplicate.
TrackKeywordLimitFirst(table, user_id, keyword, channel_id, guild_id) ==
    IF LimitReached(count_keywords(table, user_id, guild_id))
    THEN [table |-> table, response |-> "limit_reached"]
    ELSE IF keyword_exists(table, user_id, keyword, channel_id, guild_id)
    THEN [table |-> table, response |-> "already_tracked"]
    ELSE LET a == add_keyword(table, user_id, keyword, channel_id, guild_id)
         IN [table |-> a.table,
             response |-> IF a.added THEN "added" ELSE "already_tracked"]

\* The common tail of both add commands, lines 314-364 and 379-426.
TrackKeyword(table, user_id, keyword, channel_id, guild_id) ==
    IF keyword_exists(table, user_id, keyword, channel_id, guild_id)
    THEN [table |-> table, response |-> "already_tracked"]
    ELSE IF LimitReached(count_keywords(table, user_id, guild_id))
    THEN [table |-> table, response |-> "limit_reached"]
    ELSE LET a == add_keyword(table, user_id, keyword, channel_id, guild_id)
         IN [table |-> a.table,
             response |-> IF a.added THEN "added" ELSE "already_tracked"]

\* add_keyword_channel up to its reply; view is the answer of
\* channel.permissions_for(interaction.user).view_channel.
add_keyword_channel(table, interaction, keyword, channel_id, view) ==
    LET found_channels == get_channel(interaction.guild, channel_id) IN
    IF interaction.guild = None
    THEN [table |-> table, response |-> "guild_only"]
    ELSE IF \A c \in found_channels : c.type # "text"
    THEN [table |-> table, response |-> "not_text_channel"]
    ELSE LET channel == CHOOSE c \in found_channels : TRUE IN
         IF channel.guild # interaction.guild
         THEN [table |-> table, response |-> "other_guild"]
         ELSE IF ~view
         THEN [table |-> table, response |-> "no_access"]
         ELSE IF Strip(keyword) = <<>>
         THEN [table |-> table, response |-> "empty_keyword"]
         ELSE TrackKeyword(table, interaction.user, Strip(keyword),
                           Str(channel.id), interaction.guild)

add_keyword_server(table, interaction, keyword) ==
    IF interaction.guild = None
    THEN [table |-> table, response |-> "guild_only"]
    ELSE IF Strip(keyword) = <<>>
    THEN [table |-> table, response |-> "empty_keyword"]
    ELSE TrackKeyword(table, interaction.user, Strip(keyword), GLOBAL,
                      interaction.guild)

remove_keyword_cmd(table, interaction, keyword) ==
    IF interaction.guild = None
    THEN [table |-> table, response |-> "guild_only", removed |-> 0]
    ELSE IF Strip(keyword) = <<>>
    THEN [table |-> table, response |-> "empty_keyword", removed |-> 0]
    ELSE LET r == remove_keyword(table, interaction.user, interaction.guild,
                                 Strip(keyword))
         IN [table |-> r.table,
             response |-> IF r.removed > 0 THEN "removed" ELSE "not_found",
             removed |-> r.removed]

(***************************************************************************)
(* The universe of the command model.                                      *)
(***************************************************************************)
MaxCmds == 2

KwCat == <<"c","a","t">>

KwBig == <<"b","i","g">>

KwToday == <<"t","o","d","a","y">>

\* The keyword arguments the commands are given.
RawKeywords ==
    { KwSale, KwSaleCap, KwToday, <<" ","c","a","t"," ">>, <<" ">> }

ChannelArgs == {"1", "2", "3", "x"}

Interactions == [guild : {"S1", "S2", None}, user : Subscribers]

\* The case-folded text of a keyword.
Fold(k) == [j \in 1..Len(k) |-> Lower(k[j])]

Row(user_id, keyword, channel_id, guild_id) ==
    [user_id |-> user_id, keyword |-> keyword, channel_id |-> channel_id,
     guild_id |-> guild_id]

\* A table the commands can build: nine rows of U1 in S1, one row of U2 in
\* S1 and one row of U1 in S2.
BaseTable ==
    << Row("U1", KwSale, "1", "S1"), Row("U1", KwSale, "2", "S1"),
       Row("U1", KwSale, GLOBAL, "S1"), Row("U1", KwCat, "1", "S1"),
       Row("U1", KwCat, "2", "S1"), Row("U1", KwCat, GLOBAL, "S1"),
       Row("U1", KwBig, "1", "S1"), Row("U1", KwBig, "2", "S1"),
       Row("U1", KwBig, GLOBAL, "S1"), Row("U2", KwSale, GLOBAL, "S1"),
       Row("U1", KwSale, GLOBAL, "S2") >>

CmdStores == { <<>>, BaseTable }

\* The replies that refuse the arguments of a command.
Refusals ==
    {"guild_only", "not_text_channel", "other_guild", "no_access",
     "empty_keyword"}

\* What a finished command leaves behind, beside the table; last keeps the
\* arguments of a command that got as far as the store.
Handled(cmd, interaction, keyword, channel_id, res) ==
    /\ ncmds < MaxCmds
    /\ store' = res.table
    /\ response' = res.response
    /\ prev' = store
    /\ last' = IF res.response \in Refusals
               THEN [cmd |-> cmd, user_id |-> interaction.user,
                     guild_id |-> None, keyword |-> <<>>, channel_id |-> None,
                     removed |-> 0]
               ELSE [cmd |-> cmd, user_id |-> interaction.user,
                     guild_id |-> interaction.guild,
                     keyword |-> Strip(keyword),
                     channel_id |-> IF cmd = "add_channel"
                                    THEN Str(ParseInt(channel_id))
                                    ELSE channel_id,
                     removed |-> IF cmd = "remove" THEN res.removed ELSE 0]
    /\ awaiting' = awaiting + 1
    /\ ncmds' = ncmds + 1
    /\ unsub' =
         LET t == [user_id |-> interaction.user, guild_id |-> interaction.guild,
                   keyword |-> Fold(Strip(keyword))]
         IN CASE res.response = "added" -> unsub \ {t}
              [] res.response \in {"removed", "not_found"} -> unsub \cup {t}
              [] OTHER -> unsub

AddKeywordChannel ==
    /\ \E interaction \in Interactions, keyword \in RawKeywords,
          channel_id \in ChannelArgs, view \in BOOLEAN :
         Handled("add_channel", interaction, keyword, channel_id,
                 add_keyword_channel(store, interaction, keyword, channel_id,
                                     view))
    /\ UNCHANGED <<passVars, bg, matchVars>>

AddKeywordServer ==
    /\ \E interaction \in Interactions, keyword \in RawKeywords :
         Handled("add_server", interaction, keyword, GLOBAL,
                 add_keyword_server(store, interaction, keyword))
    /\ UNCHANGED <<passVars, bg, matchVars>>

RemoveKeywordCmd ==
    /\ \E interaction \in Interactions, keyword \in RawKeywords :
         Handled("remove", interaction, keyword, None,
                 remove_keyword_cmd(store, interaction, keyword))
    /\ UNCHANGED <<passVars, bg, matchVars>>

\* The reply of a suspended handler has been sent; the handler ends.
ReplySent ==
    /\ awaiting > 0
    /\ awaiting' = awaiting - 1
    /\ UNCHANGED <<store, response, prev, last, ncmds, unsub>>
    /\ UNCHANGED <<passVars, bg, matchVars>>

InitCmd ==
    /\ store \in CmdStores
    /\ PassInit
    /\ bg = None
    /\ CmdInit
    /\ MatchInit

NextCmd ==
    \/ AddKeywordChannel
    \/ AddKeywordServer
    \/ RemoveKeywordCmd
    \/ ReplySent

SpecCmd == InitCmd /\ [][NextCmd]_vars

(***************************************************************************)
(* Reading the last command.                                               *)
(***************************************************************************)
\* The last command was an add that got as far as the store.
AddReachedStore ==
    /\ last.cmd \in {"add_channel", "add_server"}
    /\ response \notin Refusals

\* Row r is a record of the tuple the last command named.
IsLastTuple(r) ==
    /\ r.user_id = last.user_id
    /\ r.guild_id = last.guild_id
    /\ r.channel_id = last.channel_id
    /\ Fold(r.keyword) = Fold(last.keyword)

\* Row r is a record of the last command's user for its keyword and guild.
IsLastKeyword(r) ==
    /\ r.user_id = last.user_id
    /\ r.guild_id = last.guild_id
    /\ Fold(r.keyword) = Fold(last.keyword)

\* Number of records the last command's user held in its guild before it.
HeldBefore ==
    Cardinality({ i \in 1..Len(prev) :
                    /\ prev[i].user_id = last.user_id
                    /\ prev[i].guild_id = last.guild_id })

(***************************************************************************)
(* C11  Subscription uniqueness: the store never holds two records with    *)
(* the same owner, case-folded keyword, scope and server, and an add of a  *)
(* tuple that is already there leaves the store unchanged and replies      *)
(* "already tracked".                                                      *)
(***************************************************************************)
SubscriptionUniqueness ==
    /\ \A i, j \in 1..Len(store) :
          (/\ store[i].user_id = store[j].user_id
           /\ Fold(store[i].keyword) = Fold(store[j].keyword)
           /\ store[i].channel_id = store[j].channel_id
           /\ store[i].guild_id = store[j].guild_id) => i = j
    /\ (AddReachedStore /\ \E i \in 1..Len(prev) : IsLastTuple(prev[i])) =>
          (store = prev /\ response = "already_tracked")

\* The tuple was registered again with its keyword in another case.
SubscriptionUniquenessWitness ==
    /\ AddReachedStore
    /\ response = "already_tracked"
    /\ \E i \in 1..Len(prev) :
          IsLastTuple(prev[i]) /\ prev[i].keyword # last.keyword

(***************************************************************************)
(* C12  Unsubscribe removes all scopes and nothing else: remove_keyword    *)
(* deletes exactly the records of that owner for that keyword in that      *)
(* server, whatever their scope, returns their number, and leaves every    *)
(* other record in place.                                                  *)
(***************************************************************************)
RemoveAllScopesOnly ==
    (last.cmd = "remove" /\ response \notin Refusals) =>
        LET Kept(r) == ~IsLastKeyword(r) IN
        /\ store = SelectSeq(prev, Kept)
        /\ last.removed = Cardinality({ i \in 1..Len(prev) :
                                          IsLastKeyword(prev[i]) })
        /\ response = IF last.removed > 0 THEN "removed" ELSE "not_found"

\* Three records (two channel scopes and the global one) were deleted, and
\* the same keyword of another owner and of another server is still there.
RemoveAllScopesOnlyWitness ==
    /\ last.cmd = "remove"
    /\ last.removed = 3
    /\ \E i, j \in 1..Len(store) :
          /\ Fold(store[i].keyword) = Fold(last.keyword)
          /\ store[i].user_id # last.user_id
          /\ Fold(store[j].keyword) = Fold(last.keyword)
          /\ store[j].user_id = last.user_id
          /\ store[j].guild_id # last.guild_id

(***************************************************************************)
(* C17  Keyword limit invariant, as claimed: no user ever holds more than  *)
(* 10 records in one server, and an add attempted at 10 records is         *)
(* rejected with the limit message.                                        *)
(***************************************************************************)
WithinLimit ==
    \A u \in Subscribers, g \in {"S1", "S2"} :
        Cardinality({ i \in 1..Len(store) :
                        store[i].user_id = u /\ store[i].guild_id = g }) <= 10

KeywordLimitAsClaimed ==
    /\ WithinLimit
    /\ (AddReachedStore /\ HeldBefore >= 10) =>
          (response = "limit_reached" /\ store = prev)

(***************************************************************************)
(* C17 (amended)  No user ever holds more than 10 records in one server,   *)
(* and an add attempted at 10 records is rejected and leaves the store     *)
(* unchanged: with the limit message when the tuple is not tracked yet,    *)
(* with the "already tracked" message when it is.                          *)
(***************************************************************************)
KeywordLimitInvariant ==
    /\ WithinLimit
    /\ (AddReachedStore /\ HeldBefore >= 10) =>
          /\ store = prev
          /\ response = IF \E i \in 1..Len(prev) : IsLastTuple(prev[i])
                        THEN "already_tracked"
                        ELSE "limit_reached"

\* An add at 10 records got the limit message while the handler of the add
\* that stored the tenth record was still suspended in its reply.
KeywordLimitInvariantWitness ==
    /\ AddReachedStore
    /\ HeldBefore = 10
    /\ response = "limit_reached"
    /\ awaiting = 2

(***************************************************************************)
(* C20  Rejected adds leave the store unchanged: an add command that does  *)
(* not reply "added" performs no insert, and a tuple that is already       *)
(* tracked gets the "already tracked" reply even at the limit (the         *)
(* duplicate check comes first).                                           *)
(***************************************************************************)
RejectedAddsLeaveStore ==
    (last.cmd \in {"add_channel", "add_server"}) =>
        /\ response \in Refusals \cup {"already_tracked", "limit_reached", "added"}
        /\ response # "added" => store = prev
        /\ response = "added" =>
              (Len(store) = Len(prev) + 1 /\ HeldBefore < 10)
        /\ (response \notin Refusals /\ HeldBefore >= 10
              /\ \E i \in 1..Len(prev) : IsLastTuple(prev[i])) =>
                 response = "already_tracked"

\* A tracked tuple was added again by a user at the limit.
RejectedAddsLeaveStoreWitness ==
    /\ AddReachedStore
    /\ HeldBefore = 10
    /\ response = "already_tracked"
    /\ store = prev

(***************************************************************************)
(* The matcher on its own: a keyword and a text are drawn, and Search      *)
(* applies _compile_keyword_pattern(kw).search(text).                      *)
(***************************************************************************)
MaxKwLen == 2

MaxTextLen == 4

MaxSuffixLen == 4

\* All sequences over alphabet of length lo..hi.
SeqsOver(alphabet, lo, hi) == UNION { [1..n -> alphabet] : n \in lo..hi }

\* Plain keywords (stripped, so no blank at either end) and plain texts.
PlainKeywords == SeqsOver({"a", "b", "+"}, 1, MaxKwLen)

PlainTexts == SeqsOver({"a", "A", "b", "+", " "}, 0, MaxTextLen)

ExampleTexts ==
    { <<"C","a","t","!">>, TextCat, <<"c","a","t","e","g","o","r","y">>,
      <<"b","o","b","c","a","t">> }

KwSagwa == <<"ko:sa", "ko:gwa">>

KwSeil == <<"ko:se", "ko:il">>

HangulKeywords == { KwSagwa, KwSeil }

\* What stands directly after the keyword: particles, parts of particles
\* and syllables that are no particle.
Suffixes == SeqsOver({"ko:i", "ko:e", "ko:seo", "ko:yo"}, 0, MaxSuffixLen)
              \cup { <<"ko:neun">>, <<"ko:ju", "ko:seu">> }

Before == { <<>>, <<" ">>, <<"x">> }

After == { <<>>, <<"!">>, <<" ", "ko:mas", "ko:iss", "ko:da">> }

HangulTexts ==
    { b \o k \o s \o a :
        b \in Before, k \in HangulKeywords, s \in Suffixes, a \in After }

MatchInputs ==
    (PlainKeywords \X PlainTexts)
      \cup ({KwCat} \X ExampleTexts)
      \cup (HangulKeywords \X HangulTexts)

Search ==
    /\ found = None
    /\ found' = IF PatternSearch(CompileKeywordPattern(kw), text)
                THEN "match"
                ELSE "no_match"
    /\ UNCHANGED <<kw, text, store, passVars, bg, cmdVars>>

InitMatch ==
    /\ store = <<>>
    /\ PassInit
    /\ bg = None
    /\ CmdInit
    /\ \E input \in MatchInputs : kw = input[1] /\ text = input[2]
    /\ found = None

NextMatch == Search

SpecMatch == InitMatch /\ [][NextMatch]_vars

\* The positions of text where the keyword stands, letter case aside.
Occurrences ==
    { p \in 1..Len(text) :
        /\ p + Len(kw) - 1 <= Len(text)
        /\ Fold(SubSeq(text, p, p + Len(kw) - 1)) = Fold(kw) }

\* The maximal run of word characters of text that starts at position q.
RunAfter(q) ==
    LET e == CHOOSE e \in (q - 1)..Len(text) :
                 /\ \A j \in q..e : text[j] \in WordChars
                 /\ (e = Len(text) \/ text[e + 1] \notin WordChars)
    IN SubSeq(text, q, e)

\* s is a concatenation of at most n particles of KOREAN_PARTICLES.
RECURSIVE IsParticleSeq(_, _)
IsParticleSeq(s, n) ==
    \/ s = <<>>
    \/ /\ n > 0
       /\ \E i \in 1..Len(KOREAN_PARTICLES) :
            LET q == KOREAN_PARTICLES[i] IN
            /\ Len(q) <= Len(s)
            /\ SubSeq(s, 1, Len(q)) = q
            /\ IsParticleSeq(SubSeq(s, Len(q) + 1, Len(s)), n - 1)

\* No word character stands directly before position p of text.
FreeBefore(p) == p = 1 \/ text[p - 1] \notin WordChars

\* No word character stands directly after the keyword at position p.
FreeAfter(p) ==
    p + Len(kw) > Len(text) \/ text[p + Len(kw)] \notin WordChars

(***************************************************************************)
(* C13  Plain-word matching, as claimed: for a keyword without Hangul the  *)
(* matcher matches the text if and only if the text contains the keyword,  *)
(* letter case aside, with no word character directly before it and none   *)
(* directly after it.                                                      *)
(***************************************************************************)
PlainWordMatching ==
    (found # None /\ ~ContainsHangul(kw)) =>
        ((found = "match") <=>
            \E p \in Occurrences : FreeBefore(p) /\ FreeAfter(p))

(***************************************************************************)
(* C14  Agglutinative matching: for a keyword with a Hangul syllable, a    *)
(* text in which the keyword, with no word character before it, is         *)
(* followed by 0 to 3 particles and then no word character is matched; a   *)
(* text in which every occurrence of the keyword is followed by a run of   *)
(* word characters that is no such particle sequence is not matched.       *)
(***************************************************************************)
AgglutinativeMatching ==
    (found # None /\ ContainsHangul(kw)) =>
        /\ (\E p \in Occurrences :
               FreeBefore(p) /\ IsParticleSeq(RunAfter(p + Len(kw)), 3))
             => found = "match"
        /\ (\A p \in Occurrences :
               ~IsParticleSeq(RunAfter(p + Len(kw)), 3))
             => found = "no_match"

\* A keyword followed by three particles, one of them of two syllables, was
\* matched.
AgglutinativeMatchingWitness ==
    /\ found = "match"
    /\ kw = KwSagwa
    /\ text = KwSagwa \o <<"ko:e", "ko:seo", "ko:i", "ko:e">>

(***************************************************************************)
(* C15  Bounded particle stacking: a Hangul keyword followed directly by a *)
(* run of word characters matches only if the whole run splits into at     *)
(* most 3 particles; a run of 4 or more particles and a run with a         *)
(* remainder that is no particle both give no match.                       *)
(***************************************************************************)
BoundedParticleStacking ==
    (found # None /\ ContainsHangul(kw) /\ Occurrences = {1}
       /\ RunAfter(1 + Len(kw)) # <<>>) =>
        LET run == RunAfter(1 + Len(kw)) IN
        /\ found = "match" => IsParticleSeq(run, 3)
        /\ (IsParticleSeq(run, Len(run)) /\ ~IsParticleSeq(run, 3))
             => found = "no_match"
        /\ ~IsParticleSeq(run, Len(run)) => found = "no_match"

\* Four stacked particles were not matched.
BoundedParticleStackingWitness ==
    /\ found = "no_match"
    /\ kw = KwSeil
    /\ text = KwSeil \o <<"ko:i", "ko:e", "ko:i", "ko:e">>

(***************************************************************************)
(* C19  Ignored messages and no feedback loop: a message without a server, *)
(* a message with empty content and a message written by the bot itself    *)
(* end the pass with no store read, no resolution and no delivery attempt; *)
(* a message written by another bot account is processed like the same     *)
(* message written by a user.                                              *)
(***************************************************************************)
IgnoredMessages ==
    pc # "idle" =>
        /\ (\/ message.guild = None
            \/ message.content = <<>>
            \/ message.author.id = BotUserId)
             => (log = <<>> /\ pc = "done")
        /\ (/\ message.guild # None
            /\ message.content # <<>>
            /\ message.author.id # BotUserId
            /\ message.author.bot)
             => LET asUser == [message EXCEPT !.author.bot = FALSE]
                    fetched == fetch_keywords_for_guild(store, message.guild)
                    res == MatchLoop(asUser, fetched, 1,
                                     [patterns |-> <<>>, matched |-> <<>>])
                IN /\ log # <<>>
                   /\ log[1].op = "fetch_keywords_for_guild"
                   /\ rows = fetched
                   /\ fetched # <<>> => matched = res.matched

\* The bot's own message in a server, with a text that a stored keyword of
\* another account matches, was dropped.
IgnoredMessagesWitness ==
    /\ pc = "done"
    /\ message.author.id = BotUserId
    /\ message.guild # None
    /\ message.content = TextSale
    /\ \E i \in 1..Len(store) :
          store[i].keyword = KwSale /\ store[i].channel_id = GLOBAL
    /\ log = <<>>

(***************************************************************************)
(* One pass and the commands of the subscribers, interleaved: a command    *)
(* runs before the pass starts, or while the pass is suspended in a        *)
(* lookup or a delivery.                                                   *)
(***************************************************************************)
UnsubStores ==
    { << Row("U1", KwSaleCap, "1", "S1"), Row("U1", KwSale, GLOBAL, "S1"),
         Row("U2", KwSale, GLOBAL, "S1") >>,
      << Row("U2", KwSaleCap, GLOBAL, "S1") >> }

UnsubMessages ==
    { m \in Messages :
        /\ m.guild = "S1"
        /\ m.content = TextSale
        /\ m.author = [id |-> "U3", bot |-> FALSE] }

UnsubInteractions == [guild : {"S1"}, user : Subscribers]

\* /remove-keyword by a subscriber.
Unsubscribe ==
    /\ \E interaction \in UnsubInteractions, keyword \in {KwSale, KwSaleCap} :
         Handled("remove", interaction, keyword, None,
                 remove_keyword_cmd(store, interaction, keyword))
    /\ UNCHANGED <<passVars, bg, matchVars>>

\* /add-keyword-server by a subscriber.
Resubscribe ==
    /\ \E interaction \in UnsubInteractions :
         Handled("add_server", interaction, KwSale, GLOBAL,
                 add_keyword_server(store, interaction, KwSale))
    /\ UNCHANGED <<passVars, bg, matchVars>>

InitUnsub ==
    /\ store \in UnsubStores
    /\ PassInit
    /\ bg = None
    /\ CmdInit
    /\ MatchInit

NextUnsub ==
    \/ \E msg \in UnsubMessages : OnMessage(msg)
    \/ ResolveMember
    \/ CheckPermission
    \/ ResolveUser
    \/ Send
    \/ Unsubscribe
    \/ Resubscribe

SpecUnsub == InitUnsub /\ [][NextUnsub]_vars

\* The (owner, server, keyword) of delivery attempt number i of the pass.
Delivered(i) ==
    [user_id |-> log[i].user_id, guild_id |-> message.guild,
     keyword |-> Fold(log[i].keyword)]

(***************************************************************************)
(* C18  Unsubscribe takes effect for later messages: a pass makes no       *)
(* delivery attempt for an (owner, keyword, server) whose removal had      *)
(* completed, and had not been undone by an add, when the pass started.    *)
(***************************************************************************)
UnsubscribeTakesEffect ==
    \A i \in 1..Len(log) :
        log[i].op = "send" => Delivered(i) \notin unsubAtStart

\* A pass that had read the store before the removal still delivered: the
\* keyword was removed while the pass was suspended, and the delivery
\* attempt came after that.
UnsubscribeTakesEffectWitness ==
    /\ Len(log) > 0
    /\ log[Len(log)].op = "send"
    /\ Delivered(Len(log)) \in unsub
    /\ Delivered(Len(log)) \notin unsubAtStart
    /\ unsubAtStart # {}

(***************************************************************************)
(* Two passes in flight.  The variables of the pass hold the locals of the *)
(* task that is running; bg holds the locals of the other task, which is   *)
(* suspended in an await (or has not started, or has ended).  Switch lets  *)
(* the other task run.                                                     *)
(***************************************************************************)
ConcStores ==
    { << Row("U1", KwSale, GLOBAL, "S1"), Row("U2", KwSale, GLOBAL, "S1"),
         Row("U2", KwSaleCap, "1", "S1") >> }

ConcMessages ==
    { m \in Messages :
        /\ m.guild = "S1"
        /\ m.content = TextSale
        /\ \/ m.channel = 1 /\ m.author = [id |-> "U3", bot |-> FALSE]
           \/ m.channel = 2 /\ m.author = [id |-> "U1", bot |-> FALSE] }

\* The locals of the running task.
Locals ==
    [pc |-> pc, message |-> message, rows |-> rows, patterns |-> patterns,
     matched |-> matched, idx |-> idx, member_cache |-> member_cache,
     user_cache |-> user_cache, member |-> member, user |-> user,
     pending |-> pending, log |-> log, unsubAtStart |-> unsubAtStart]

\* The locals of a task that has not started.
IdleLocals ==
    [pc |-> "idle", message |-> None, rows |-> <<>>, patterns |-> <<>>,
     matched |-> <<>>, idx |-> 0, member_cache |-> <<>>,
     user_cache |-> <<>>, member |-> None, user |-> None,
     pending |-> {}, log |-> <<>>, unsubAtStart |-> {}]

\* Variant: member_cache and user_cache are module-level dicts, which the
\* task that resumes finds as the other task left them.
ResumeSharedCaches(saved, running) ==
    [saved EXCEPT !.member_cache = running.member_cache,
                  !.user_cache = running.user_cache]

\* What a task finds in its locals when it resumes: patterns, matched,
\* member_cache and user_cache are created inside on_message (lines 537-538
\* and 570-571), so each call has its own.
Resume(saved, running) == saved

Switch ==
    /\ pc # "perm"
    /\ LET r == Resume(bg, Locals) IN
         /\ pc' = r.pc
         /\ message' = r.message
         /\ rows' = r.rows
         /\ patterns' = r.patterns
         /\ matched' = r.matched
         /\ idx' = r.idx
         /\ member_cache' = r.member_cache
         /\ user_cache' = r.user_cache
         /\ member' = r.member
         /\ user' = r.user
         /\ pending' = r.pending
         /\ log' = r.log
         /\ unsubAtStart' = r.unsubAtStart
    /\ bg' = Locals
    /\ UNCHANGED <<store, cmdVars, matchVars>>

InitConc ==
    /\ store \in ConcStores
    /\ PassInit
    /\ bg = IdleLocals
    /\ CmdInit
    /\ MatchInit

NextConc ==
    \/ \E msg \in ConcMessages : OnMessage(msg)
    \/ ResolveMember
    \/ CheckPermission
    \/ ResolveUser
    \/ Send
    \/ Switch

SpecConc == InitConc /\ [][NextConc]_vars

\* The cache holds what the lookups op of the task's own log returned, and
\* nothing else.
OwnCache(cache, op, l) ==
    /\ DOMAIN cache =
          { l[i].user_id : i \in { j \in 1..Len(l) :
                                     l[j].op = op /\ l[j].result # Raise } }
    /\ \A u \in DOMAIN cache :
          \E i \in 1..Len(l) : l[i] = Event(op, u, <<>>, cache[u])

\* The locals p of a task are what the task produces when it runs alone on
\* its message and the store, given the answers recorded in its own log.
Alone(p) ==
    IF p.pc = "idle" THEN p = IdleLocals
    ELSE IF IsIgnored(p.message) THEN p.log = <<>> /\ p.pc = "done"
    ELSE LET fetched == fetch_keywords_for_guild(store, p.message.guild)
             res == MatchLoop(p.message, fetched, 1,
                              [patterns |-> <<>>, matched |-> <<>>])
             owners == { res.matched[j].user_id : j \in 1..Len(res.matched) }
         IN /\ p.rows = fetched
            /\ p.patterns = res.patterns
            /\ p.matched = res.matched
            /\ OwnCache(p.member_cache, "get_member", p.log)
            /\ OwnCache(p.user_cache, "get_user", p.log)
            /\ \A i \in 2..Len(p.log) :
                  /\ p.log[i].op \in {"get_member", "get_user"}
                       => p.log[i].user_id \in owners
                  /\ p.log[i].op = "send" =>
                       \E j \in 1..Len(res.matched) :
                          /\ res.matched[j].user_id = p.log[i].user_id
                          /\ p.log[i].keyword \in res.matched[j].keywords
                          /\ p.user_cache[p.log[i].user_id] = p.log[i].user_id
                          /\ p.member_cache[p.log[i].user_id] = p.log[i].user_id
            /\ \A i, j \in 1..Len(p.log) :
                  (/\ p.log[i].op = p.log[j].op
                   /\ p.log[i].user_id = p.log[j].user_id
                   /\ p.log[i].keyword = p.log[j].keyword) => i = j

(***************************************************************************)
(* C16  Concurrent passes are independent: with two passes in flight that  *)
(* interleave at their suspension points, the pattern cache, the match     *)
(* result, the member cache and the identity cache of each pass hold only  *)
(* what that pass computed and looked up itself, and each pass makes the   *)
(* lookups and delivery attempts of a pass running alone.                  *)
(***************************************************************************)
ConcurrentPassesIndependent == Alone(Locals) /\ Alone(bg)

\* Both passes are in their owner loops with different messages and
\* different caches: one has resolved a member while the other one is
\* suspended in a delivery, with one delivery attempt already made.
ConcurrentPassesIndependentWitness ==
    /\ pc \in {"user", "send"}
    /\ bg.pc = "send"
    /\ message # bg.message
    /\ member_cache # <<>> /\ bg.member_cache # <<>>
    /\ member_cache # bg.member_cache
    /\ \E i \in 1..Len(bg.log) : bg.log[i].op = "send"

====
